---- MODULE Spec2Model ----
(***************************************************************************)
(* Slot reservation and reminder sweep of the CUSA portal.                 *)
(*                                                                         *)
(* src/CUSA.py      list_slots, reserve_excel_slot,                        *)
(*                  cancel_excel_reservation, admin_add_slot_excel and the *)
(*                  Signups / Admin handlers that call them                 *)
(* src/reminder.py  main: the periodic reminder sweep                      *)
(*                                                                         *)
(* Representation.  A text is a sequence of one-character strings, so that *)
(* strip() and lower() are computed, not assumed.  A worksheet cell is a   *)
(* sequence: <<>> is an empty cell (None, or "" which the code reads the   *)
(* same way through `str(v or "")` and truthiness), a text cell is its     *)
(* text, a date / time / number / bool cell is a one-element sequence.     *)
(* A date is a day number, a time of day is a minute of the day, and a     *)
(* datetime is a minute count.                                             *)
(***************************************************************************)
EXTENDS Integers, Sequences, FiniteSets, TLC

VARIABLES header, rows, now, last, procs

vars == <<header, rows, now, last, procs>>

(***************************************************************************)
(* Texts: str.strip(), str.lower(), datetime arithmetic.                   *)
(***************************************************************************)
IsSpace(c) == c = " "

RECURSIVE LStrip(_)
LStrip(s) == IF s # <<>> /\ IsSpace(Head(s)) THEN LStrip(Tail(s)) ELSE s

RECURSIVE RStrip(_)
RStrip(s) ==
    IF s # <<>> /\ IsSpace(s[Len(s)]) THEN RStrip(SubSeq(s, 1, Len(s) - 1)) ELSE s

\* str.strip()
Strip(s) == RStrip(LStrip(s))

LowerChar(c) ==
    CASE c = "A" -> "a"
      [] c = "B" -> "b"
      [] c = "X" -> "x"
      [] OTHER -> c

\* str.lower()
Lower(s) == [i \in 1..Len(s) |-> LowerChar(s[i])]

\* `x in s` for a one-character x
Contains(s, c) == \E i \in 1..Len(s) : s[i] = c

\* Python truthiness of a cell value: None and "" are false; a non-empty
\* text, a date and a time are true
Truthy(cell) == cell # <<>>

\* bool(cell.value) of a flag cell: None and False are false
Bool(cell) == cell = <<TRUE>>

MinutesPerDay == 24 * 60

(***************************************************************************)
(* Accounts (users.db): create_user validates and normalises, authenticate *)
(* returns the session user that the handlers receive.                     *)
(***************************************************************************)
MinPasswordLen == 8

\* what create_user stores for one sign-up, or <<>> when it refuses
create_user(first_name, last_name, email, pwlen) ==
    IF Strip(first_name) = <<>> \/ Strip(last_name) = <<>> THEN <<>>
    ELSE IF ~Contains(email, "@") \/ ~Contains(email, ".") THEN <<>>
    ELSE IF pwlen < MinPasswordLen THEN <<>>
    ELSE << [first_name |-> Strip(first_name),
             last_name  |-> Strip(last_name),
             email      |-> Lower(Strip(email))] >>

\* the sign-up forms submitted, in order
RawSignups ==
    << [first_name |-> <<" ", "A", "n">>, last_name |-> <<"L", "i", " ">>,
        email |-> <<" ", "A", "@", "x", ".", "y">>, pwlen |-> 8],
       [first_name |-> <<" ">>, last_name |-> <<"N", "o">>,
        email |-> <<"n", "@", "x", ".", "y">>, pwlen |-> 9],
       [first_name |-> <<"B", "o">>, last_name |-> <<"K", "u">>,
        email |-> <<"b", "@", "X", ".", "y">>, pwlen |-> 8],
       [first_name |-> <<"C", "y">>, last_name |-> <<"M", "a">>,
        email |-> <<"c", "@", "x", ".", "y">>, pwlen |-> 7],
       [first_name |-> <<"A", "l">>, last_name |-> <<"L", "i">>,
        email |-> <<"a", "@", "x", ".", "y">>, pwlen |-> 8] >>

\* the users table after the first n sign-ups: AUTOINCREMENT id, UNIQUE email
RECURSIVE UsersAfter(_)
UsersAfter(n) ==
    IF n = 0 THEN <<>>
    ELSE LET before == UsersAfter(n - 1)
             raw    == RawSignups[n]
             made   == create_user(raw.first_name, raw.last_name, raw.email, raw.pwlen)
         IN  IF made = <<>> THEN before
             ELSE IF \E i \in 1..Len(before) : before[i].email = made[1].email
             THEN before
             ELSE Append(before, [id         |-> <<Len(before) + 1>>,
                                  first_name |-> made[1].first_name,
                                  last_name  |-> made[1].last_name,
                                  email      |-> made[1].email])

\* the session users authenticate can return
Accounts == LET t == UsersAfter(Len(RawSignups)) IN {t[i] : i \in 1..Len(t)}

(***************************************************************************)
(* The worksheet.  `header` is the header row, one text per column ("" an  *)
(* empty header cell).  `rows` are the data rows below it, rows[i] being   *)
(* worksheet row HEADER_ROW + i; a row maps a header name to the cell in   *)
(* that column, which is what ws.cell(r, col(NAME)).value reads.           *)
(***************************************************************************)
TRACK_HEADERS == <<"EMAIL", "USER_ID", "RESERVED_AT", "SENT_24H", "SENT_1H", "GCAL_UID">>

BaseHeaders ==
    <<"EVENT", "LOCATION", "DATE", "START TIME", "END TIME", "HOURS",
      "CONTACT PERSON", "FIRST NAME", "LAST NAME", "COMPLETED">>

Range(s) == {s[i] : i \in 1..Len(s)}

Columns == Range(BaseHeaders) \cup Range(TRACK_HEADERS)

\* v.strip().upper() of a header cell, for the spellings the sheets here use
\* ("" when nothing is left after the strip)
HeaderNorm(h) ==
    CASE h = "email"  -> "EMAIL"
      [] h = " "      -> ""
      [] OTHER        -> h

\* get_headers: the names that resolve to a column
get_headers(hdr) ==
    {HeaderNorm(hdr[c]) : c \in {c \in 1..Len(hdr) : HeaderNorm(hdr[c]) # ""}}

\* ws.cell(header_row, col).value = th, growing the row when col is past it
SetHeader(hdr, col, th) ==
    [c \in 1..(IF col > Len(hdr) THEN col ELSE Len(hdr)) |->
        IF c = col THEN th ELSE IF c <= Len(hdr) THEN hdr[c] ELSE ""]

\* the first col, from 1, whose header cell is None or that is past max_column
RECURSIVE FirstFreeCol(_, _)
FirstFreeCol(hdr, col) ==
    IF col <= Len(hdr) /\ hdr[col] # "" THEN FirstFreeCol(hdr, col + 1) ELSE col

RECURSIVE WriteMissing(_, _, _, _)
WriteMissing(hdr, have, col, k) ==
    IF k > Len(TRACK_HEADERS) THEN hdr
    ELSE IF TRACK_HEADERS[k] \notin have
         THEN WriteMissing(SetHeader(hdr, col, TRACK_HEADERS[k]), have, col + 1, k + 1)
         ELSE WriteMissing(hdr, have, col, k + 1)

\* the header row ensure_tracking_columns saves
ensure_tracking_columns(hdr) ==
    WriteMissing(hdr, get_headers(hdr), FirstFreeCol(hdr, 1), 1)

\* parse_excel_date / parse_excel_time: the value of a date or time cell, None
\* (<<>>) for an empty one
parse_excel_date(v) == v
parse_excel_time(v) == v

\* slot_datetime(d, t)
slot_datetime(d, t) == d * MinutesPerDay + t

\* float(cell.value or 0)
HoursOf(cell) == IF cell = <<>> THEN 0 ELSE cell[1]

\* the Slot list_slots builds from data row r
SlotOf(sheet, r) ==
    LET row      == sheet[r]
        start_dt == slot_datetime(row["DATE"][1], row["START TIME"][1])
        end_0    == slot_datetime(row["DATE"][1], row["END TIME"][1])
    IN  [row        |-> r,
         event      |-> Strip(row["EVENT"]),
         location   |-> Strip(row["LOCATION"]),
         start_dt   |-> start_dt,
         end_dt     |-> IF end_0 <= start_dt THEN end_0 + MinutesPerDay ELSE end_0,
         hours      |-> HoursOf(row["HOURS"]),
         contact    |-> Strip(row["CONTACT PERSON"]),
         first_name |-> Strip(row["FIRST NAME"]),
         last_name  |-> Strip(row["LAST NAME"]),
         completed  |-> Strip(row["COMPLETED"]),
         email      |-> Strip(row["EMAIL"])]

\* whether list_slots keeps data row r
Listed(sheet, r) ==
    LET row == sheet[r]
    IN  /\ (Truthy(row["EVENT"]) \/ Truthy(row["DATE"])
              \/ Truthy(row["START TIME"]) \/ Truthy(row["END TIME"]))
        /\ Strip(row["EVENT"]) # <<>>
        /\ Truthy(parse_excel_date(row["DATE"]))
        /\ Truthy(parse_excel_time(row["START TIME"]))
        /\ Truthy(parse_excel_time(row["END TIME"]))

\* the loop of list_slots: the Slots of the sheet, in row order
RECURSIVE list_from(_, _)
list_from(sheet, r) ==
    IF r > Len(sheet) THEN <<>>
    ELSE IF Listed(sheet, r) THEN <<SlotOf(sheet, r)>> \o list_from(sheet, r + 1)
    ELSE list_from(sheet, r + 1)

\* list_slots: its first statement is ensure_tracking_columns, which saves
\* the header row; then it loads the file and returns the Slots
list_slots(hdr, sheet) ==
    [header |-> ensure_tracking_columns(hdr), slots |-> list_from(sheet, 1)]

\* faulty is_taken, for the sensitivity of C6: taken only with both names
is_taken_both(s) == Strip(s.first_name) # <<>> /\ Strip(s.last_name) # <<>>

\* Signups tab: is_taken of a listed Slot
is_taken(s) == Strip(s.first_name) # <<>> \/ Strip(s.last_name) # <<>>

\* Signups tab: the label's Taken / Open mark
label_taken(s) == Strip(s.first_name) # <<>> \/ Strip(s.last_name) # <<>>

\* Signups tab: the slots offered in "Choose a slot"
filtered(slots, t, upcoming_only, show_taken) ==
    {i \in 1..Len(slots) :
        /\ ~(upcoming_only /\ slots[i].start_dt < t)
        /\ ~(~show_taken /\ is_taken(slots[i]))}

\* Signups tab: the slots under "My Reservations"
my_res(slots, u) ==
    {i \in 1..Len(slots) : Lower(Strip(slots[i].email)) = Lower(u.email)}

(***************************************************************************)
(* Reservation engine.                                                     *)
(***************************************************************************)
Put(row, name, value) == [row EXCEPT ![name] = value]

\* faulty guard, for the sensitivity of C5: the names are not stripped
reserve_taken_unstripped(row) == row["FIRST NAME"] # <<>> \/ row["LAST NAME"] # <<>>

\* faulty guard, for the sensitivity of C11: no slot is ever refused
reserve_taken_never(row) == FALSE

\* the guard of reserve_excel_slot
reserve_taken(row) == Strip(row["FIRST NAME"]) # <<>> \/ Strip(row["LAST NAME"]) # <<>>

\* faulty write, for the sensitivity of C2: the tracking cells are left alone
reserve_write_identity_only(row, user, t) ==
    [row EXCEPT !["FIRST NAME"]  = Strip(user.first_name),
                !["LAST NAME"]   = Strip(user.last_name),
                !["EMAIL"]       = Lower(Strip(user.email)),
                !["USER_ID"]     = user.id,
                !["RESERVED_AT"] = <<t>>]

\* the cells reserve_excel_slot writes
reserve_write(row, user, t) ==
    [row EXCEPT !["FIRST NAME"]  = Strip(user.first_name),
                !["LAST NAME"]   = Strip(user.last_name),
                !["EMAIL"]       = Lower(Strip(user.email)),
                !["USER_ID"]     = user.id,
                !["RESERVED_AT"] = <<t>>,
                !["SENT_24H"]    = <<FALSE>>,
                !["SENT_1H"]     = <<FALSE>>,
                !["GCAL_UID"]    = <<>>]

\* faulty reserve, for the sensitivity of C1: a taken slot is refused only
\* after the cells are written and saved
reserve_excel_slot_write_first(sheet, r, user, t) ==
    IF reserve_taken(sheet[r])
    THEN [ok |-> FALSE, msg |-> "That slot is already taken.",
          rows |-> [sheet EXCEPT ![r] = reserve_write(sheet[r], user, t)]]
    ELSE [ok |-> TRUE, msg |-> "Reserved!",
          rows |-> [sheet EXCEPT ![r] = reserve_write(sheet[r], user, t)]]

\* reserve_excel_slot: (ok, message) and the sheet it leaves in the file
reserve_excel_slot(sheet, r, user, t) ==
    IF reserve_taken(sheet[r])
    THEN [ok |-> FALSE, msg |-> "That slot is already taken.", rows |-> sheet]
    ELSE [ok |-> TRUE, msg |-> "Reserved!",
          rows |-> [sheet EXCEPT ![r] = reserve_write(sheet[r], user, t)]]

\* the first guard of cancel_excel_reservation
cancel_not_owner(row, email) == Lower(Strip(row["EMAIL"])) # Lower(Strip(email))

\* faulty guard, for the sensitivity of C3: COMPLETED is never looked at
cancel_completed_ignored(row) == FALSE

\* the second guard of cancel_excel_reservation
cancel_completed(row) == Strip(row["COMPLETED"]) # <<>>

\* faulty write, for the sensitivity of C4: the reminder cells are left alone
cancel_write_identity_only(row) ==
    [row EXCEPT !["FIRST NAME"]  = <<>>,
                !["LAST NAME"]   = <<>>,
                !["EMAIL"]       = <<>>,
                !["USER_ID"]     = <<>>,
                !["RESERVED_AT"] = <<>>]

\* the cells cancel_excel_reservation writes
cancel_write(row) ==
    [row EXCEPT !["FIRST NAME"]  = <<>>,
                !["LAST NAME"]   = <<>>,
                !["EMAIL"]       = <<>>,
                !["USER_ID"]     = <<>>,
                !["RESERVED_AT"] = <<>>,
                !["SENT_24H"]    = <<FALSE>>,
                !["SENT_1H"]     = <<FALSE>>,
                !["GCAL_UID"]    = <<>>]

\* cancel_excel_reservation: (ok, message) and the sheet it leaves in the file
cancel_excel_reservation(sheet, r, email) ==
    IF cancel_not_owner(sheet[r], email)
    THEN [ok |-> FALSE, msg |-> "You can only cancel your own reservation.",
          rows |-> sheet]
    ELSE IF cancel_completed(sheet[r])
    THEN [ok |-> FALSE, msg |-> "This slot is marked completed. Contact an admin.",
          rows |-> sheet]
    ELSE [ok |-> TRUE, msg |-> "Cancelled.",
          rows |-> [sheet EXCEPT ![r] = cancel_write(sheet[r])]]

(***************************************************************************)
(* admin_add_slot_excel.                                                   *)
(***************************************************************************)
EmptyRow == [c \in Columns |-> <<>>]

\* faulty search, for the sensitivity of C15: the row after the first row
\* without event, date and start
RECURSIVE add_row_index_after(_, _)
add_row_index_after(sheet, r) ==
    IF r > Len(sheet) THEN Len(sheet) + 1
    ELSE IF ~(Truthy(sheet[r]["EVENT"]) \/ Truthy(sheet[r]["DATE"])
                \/ Truthy(sheet[r]["START TIME"]))
         THEN r + 1
         ELSE add_row_index_after(sheet, r + 1)

\* the first data row, from the top, whose EVENT, DATE and START TIME are all
\* falsy; max_row + 1 when there is none
RECURSIVE add_row_index(_, _)
add_row_index(sheet, r) ==
    IF r > Len(sheet) THEN Len(sheet) + 1
    ELSE IF ~(Truthy(sheet[r]["EVENT"]) \/ Truthy(sheet[r]["DATE"])
                \/ Truthy(sheet[r]["START TIME"]))
         THEN r
         ELSE add_row_index(sheet, r + 1)

\* faulty write, for the sensitivity of C17: the reservation cells of the
\* row are left as found
add_write_descriptive_only(row, event, location, d, start_t, end_t, hours, contact) ==
    [row EXCEPT !["EVENT"]          = Strip(event),
                !["LOCATION"]       = Strip(location),
                !["DATE"]           = <<d>>,
                !["START TIME"]     = <<start_t>>,
                !["END TIME"]       = <<end_t>>,
                !["HOURS"]          = <<hours>>,
                !["CONTACT PERSON"] = Strip(contact)]

\* the cells admin_add_slot_excel writes
add_write(row, event, location, d, start_t, end_t, hours, contact) ==
    [row EXCEPT !["EVENT"]          = Strip(event),
                !["LOCATION"]       = Strip(location),
                !["DATE"]           = <<d>>,
                !["START TIME"]     = <<start_t>>,
                !["END TIME"]       = <<end_t>>,
                !["HOURS"]          = <<hours>>,
                !["CONTACT PERSON"] = Strip(contact),
                !["FIRST NAME"]     = <<>>,
                !["LAST NAME"]      = <<>>,
                !["COMPLETED"]      = <<>>,
                !["EMAIL"]          = <<>>,
                !["USER_ID"]        = <<>>,
                !["RESERVED_AT"]    = <<>>,
                !["SENT_24H"]       = <<FALSE>>,
                !["SENT_1H"]        = <<FALSE>>,
                !["GCAL_UID"]       = <<>>]

\* admin_add_slot_excel: the row it wrote and the sheet it leaves in the file
admin_add_slot_excel(sheet, event, location, d, start_t, end_t, hours, contact) ==
    LET r   == add_row_index(sheet, 1)
        old == IF r <= Len(sheet) THEN sheet[r] ELSE EmptyRow
        new == add_write(old, event, location, d, start_t, end_t, hours, contact)
    IN  [ok |-> TRUE, row |-> r,
         rows |-> [i \in 1..(IF r > Len(sheet) THEN r ELSE Len(sheet)) |->
                      IF i = r THEN new ELSE sheet[i]]]

(***************************************************************************)
(* reminder.py: one run of main.                                           *)
(***************************************************************************)
\* timedelta(hours=23, minutes=30) and timedelta(hours=24, minutes=30)
W24Lo == 23 * 60 + 30
W24Hi == 24 * 60 + 30
\* timedelta(minutes=30) and timedelta(hours=1, minutes=30)
W1Lo == 30
W1Hi == 60 + 30

\* the values str(uuid.uuid4()) takes: a run of main never draws the same
\* value twice, so the value drawn for data row r in a run is named by the
\* run's seed and r
Seeds == {"p", "q"}
RowDigit == <<"1", "2", "3", "4", "5">>
uuid4(seed, r) == <<"u", seed, RowDigit[r]>>

\* parse_dt(dv, tv): None (<<>>) when either is missing
parse_dt(dv, tv) ==
    IF ~Truthy(dv) \/ ~Truthy(tv) THEN <<>> ELSE <<dv[1] * MinutesPerDay + tv[1]>>

\* the row passes `if not (event and dv and stv and env and email): continue`
sweep_eligible(row) ==
    /\ Truthy(row["EVENT"]) /\ Truthy(row["DATE"]) /\ Truthy(row["START TIME"])
    /\ Truthy(row["END TIME"]) /\ Strip(row["EMAIL"]) # <<>>
    /\ parse_dt(row["DATE"], row["START TIME"]) # <<>>
    /\ parse_dt(row["DATE"], row["END TIME"]) # <<>>

\* faulty condition, for the sensitivity of C8: SENT_24H is not looked at
due_24h_any_flag(delta, sent24) == W24Lo <= delta /\ delta <= W24Hi

\* the condition of the 24-hour send
due_24h(delta, sent24) == W24Lo <= delta /\ delta <= W24Hi /\ ~sent24

\* faulty condition, for the sensitivity of C12: the 1-hour window opens at
\* one hour, not at half an hour
due_1h_from_one_hour(delta, sent1) == 60 <= delta /\ delta <= W1Hi /\ ~sent1

\* the condition of the 1-hour send
due_1h(delta, sent1) == W1Lo <= delta /\ delta <= W1Hi /\ ~sent1

\* faulty uid, for the sensitivity of C10: every run draws a new uuid4
sweep_uid_always_new(row, fresh) == fresh

\* the uid of the row's invite: the stored one, else a new uuid4
sweep_uid(row, fresh) ==
    IF Strip(row["GCAL_UID"]) # <<>> THEN Strip(row["GCAL_UID"]) ELSE fresh

\* one call of send_email: what was handed to SMTP, and whether it went out
Mail(r, kind, to, uid, start_dt, ok) ==
    [row |-> r, kind |-> kind, to |-> to, uid |-> uid, start |-> start_dt, ok |-> ok]

\* the body of the loop for data row r: the row as left in the workbook in
\* memory, the send_email calls made, and whether one of them raised.
\* send_email raises for the addresses in bad.
sweep_row(row, r, t, bad, fresh) ==
    IF ~sweep_eligible(row) THEN [row |-> row, out |-> <<>>, raised |-> FALSE]
    ELSE
      LET email    == Strip(row["EMAIL"])
          start_dt == parse_dt(row["DATE"], row["START TIME"])[1]
          sent24   == Bool(row["SENT_24H"])
          sent1    == Bool(row["SENT_1H"])
          delta    == start_dt - t
          uid      == sweep_uid(row, fresh)
          row1     == Put(row, "GCAL_UID", uid)
          try24    == due_24h(delta, sent24)
          ok24     == try24 /\ email \notin bad
          row2     == IF ok24 THEN Put(row1, "SENT_24H", <<TRUE>>) ELSE row1
          try1     == (~try24 \/ ok24) /\ due_1h(delta, sent1)
          ok1      == try1 /\ email \notin bad
          row3     == IF ok1 THEN Put(row2, "SENT_1H", <<TRUE>>) ELSE row2
      IN  [row    |-> row3,
           out    |-> (IF try24 THEN <<Mail(r, "24h", email, uid, start_dt, ok24)>>
                       ELSE <<>>)
                      \o (IF try1 THEN <<Mail(r, "1h", email, uid, start_dt, ok1)>>
                          ELSE <<>>),
           raised |-> (try24 /\ ~ok24) \/ (try1 /\ ~ok1)]

\* the loop of main from data row r on: stops where send_email raises
RECURSIVE sweep_from(_, _, _, _, _, _)
sweep_from(sheet, r, t, bad, fresh, out) ==
    IF r > Len(sheet) THEN [rows |-> sheet, out |-> out, done |-> TRUE]
    ELSE LET s == sweep_row(sheet[r], r, t, bad, fresh[r])
         IN  IF s.raised
             THEN [rows |-> [sheet EXCEPT ![r] = s.row], out |-> out \o s.out,
                   done |-> FALSE]
             ELSE sweep_from([sheet EXCEPT ![r] = s.row], r + 1, t, bad, fresh,
                             out \o s.out)

\* main of reminder.py after the smtp_ready guard: the mails handed to SMTP,
\* whether wb.save was reached, and the sheet then in the file (an exception
\* from send_email leaves main before wb.save, so the file keeps `sheet`)
sweep(sheet, t, bad, fresh) ==
    LET run == sweep_from(sheet, 1, t, bad, fresh, <<>>)
    IN  [out |-> run.out, done |-> run.done,
         rows |-> IF run.done THEN run.rows ELSE sheet]

(***************************************************************************)
(* The sheets the portal starts from.  The workbook is kept by hand as     *)
(* well as by the portal, so it can hold names typed without an email, a   *)
(* cell holding only a space, or a mixed-case address.                     *)
(***************************************************************************)
\* a slot row with the descriptive cells filled
SlotRow(d, start_t, first, lastn, completed, email, user_id, s24, s1, uid) ==
    [c \in Columns |->
        CASE c = "EVENT"          -> <<"E", "v">>
          [] c = "LOCATION"       -> <<"H", "q">>
          [] c = "DATE"           -> d
          [] c = "START TIME"     -> start_t
          [] c = "END TIME"       -> <<45>>
          [] c = "HOURS"          -> <<1>>
          [] c = "CONTACT PERSON" -> <<"K">>
          [] c = "FIRST NAME"     -> first
          [] c = "LAST NAME"      -> lastn
          [] c = "COMPLETED"      -> completed
          [] c = "EMAIL"          -> email
          [] c = "USER_ID"        -> user_id
          [] c = "RESERVED_AT"    -> <<>>
          [] c = "SENT_24H"       -> s24
          [] c = "SENT_1H"        -> s1
          [] c = "GCAL_UID"       -> uid]

\* an open slot on day d at minute start_t
OpenRow(d, start_t) ==
    SlotRow(<<d>>, <<start_t>>, <<>>, <<>>, <<>>, <<>>, <<>>, <<>>, <<>>, <<>>)

\* only a last name typed in
HalfRow == SlotRow(<<1>>, <<30>>, <<>>, <<"Z">>, <<>>, <<>>, <<>>, <<>>, <<>>, <<>>)

\* a first name cell holding one space, the tracking cells of an earlier
\* reservation left behind
SpaceRow ==
    SlotRow(<<1>>, <<61>>, <<" ">>, <<>>, <<>>, <<>>, <<>>, <<TRUE>>, <<TRUE>>,
            <<"u", "o", "2">>)

\* taken and completed, the address typed in capitals with a leading space
DoneRow ==
    SlotRow(<<1>>, <<0>>, <<"A", "n">>, <<"L", "i">>, <<"x">>,
            <<" ", "A", "@", "x", ".", "y">>, <<1>>, <<>>, <<>>, <<>>)

\* taken, the COMPLETED cell holding one space
SpaceDoneRow ==
    SlotRow(<<0>>, <<1439>>, <<"B", "o">>, <<"K", "u">>, <<" ">>,
            <<"B", "@", "x", ".", "y">>, <<2>>, <<>>, <<TRUE>>, <<>>)

\* an event without a date
NoDateRow == SlotRow(<<>>, <<30>>, <<>>, <<>>, <<>>, <<>>, <<>>, <<>>, <<>>, <<>>)

\* a row kept for notes: a place and a name, but no event, date or start
NoteRow == [EmptyRow EXCEPT !["LOCATION"] = <<"H", "q">>, !["LAST NAME"] = <<"Z">>]

\* a slot as reserve_excel_slot leaves it
ReservedRow(d, start_t, user, t) == reserve_write(OpenRow(d, start_t), user, t)

FullHeaders == BaseHeaders \o TRACK_HEADERS

\* (header row, data rows) of the workbooks the portal is started on
InitSheets ==
    { <<BaseHeaders, <<HalfRow>> >>,
      <<FullHeaders, <<DoneRow, OpenRow(1, 30)>> >>,
      <<FullHeaders, <<SpaceRow, HalfRow>> >>,
      <<FullHeaders, <<SpaceDoneRow, NoDateRow>> >>,
      <<BaseHeaders, <<EmptyRow, NoDateRow, EmptyRow>> >>,
      <<FullHeaders, <<NoteRow, HalfRow>> >> }

\* the instants at which something is done
TimePoints == {30, 1410}

\* what the admin types into "Add a new slot"
AddEvents == {<<" ", "O", "h">>, <<" ">>}
AddStarts == {60}

\* one click on "Add slot to Excel": the event name and the start time typed
AddInputs == {[ev |-> e, start |-> s] : e \in AddEvents, s \in AddStarts}

\* Bound of the model: the clicks on "Add slot to Excel" in a behaviour.
\* admin_add_slot_excel itself has no limit: every call is carried out, and
\* a call that finds no free row makes the sheet one row longer.
MaxAdds == 1

\* what the admin is going to type, click by click
RECURSIVE AdminScripts(_)
AdminScripts(n) ==
    IF n = 0 THEN {<<>>}
    ELSE {<<i>> \o s : i \in AddInputs, s \in AdminScripts(n - 1)}

\* the addresses typed into a cancel request
CancelEmails ==
    {u.email : u \in Accounts} \cup {<<"A", "@", "x", ".", "y", " ">>}

(***************************************************************************)
(* State machine.  A step is what a script run of the portal, or a run of  *)
(* reminder.py, does up to the next point at which it waits (for the mail  *)
(* server) or ends.                                                        *)
(***************************************************************************)
\* what the last operation returned or sent ("idle": it returns nothing)
Result(op) ==
    [op |-> op, row |-> 0, ok |-> TRUE, msg |-> "", mail |-> "none",
     out |-> <<>>, done |-> TRUE]

\* the runs in progress: the script runs of the two portal sessions s1 and
\* s2 and of the admin's session, and main of reminder.py.  A run that is
\* waiting, or that has loaded the workbook and not yet saved it, holds
\* here what it will go on with: hdr,
\* ewb and wb are the header row and the data rows it loaded, t the value of
\* datetime.now() it read, prev what main's predecessor printed when main
\* started right after it, over the processes whose calls saved the file
\* while the run held its copy.  todo is what the user of the session is
\* going to submit.
Procs == {"s1", "s2", "cron", "admin"}
Sessions == {"s1", "s2"}

Idle ==
    [pc |-> "idle", op |-> "none", row |-> 0, hdr |-> <<>>, ewb |-> <<>>,
     wb |-> <<>>, t |-> 0, prev |-> Result("idle"), ok |-> FALSE,
     out |-> <<>>, over |-> {}, todo |-> <<>>]

NoCalls == [p \in Procs |-> Idle]

\* session s1 is logged in as user 1 and s2 as user 2
UserOf(p) == CHOOSE u \in Accounts : u.id = (IF p = "s1" THEN <<1>> ELSE <<2>>)

SessionOf(u) == CHOOSE p \in Sessions : UserOf(p) = u

Init ==
    /\ \E s \in InitSheets : header = s[1] /\ rows = s[2]
    /\ now = 30
    /\ last = Result("idle")
    /\ \E s \in AdminScripts(MaxAdds) : procs = [NoCalls EXCEPT !["admin"].todo = s]

\* the data rows the page shows: the Slots list_slots returned
ListedRows(sheet) == {r \in 1..Len(sheet) : Listed(sheet, r)}

\* the header row a run of the script leaves in the file before it comes to
\* the tabs: ensure_tracking_columns, then list_slots, which calls it again
\* and writes nothing else (the header of list_slots(h, sheet) is
\* ensure_tracking_columns(h), whatever the sheet holds)
page_load(hdr, sheet) == ensure_tracking_columns(ensure_tracking_columns(hdr))

\* the header row left by a run in which a handler calls reserve_excel_slot,
\* cancel_excel_reservation or admin_add_slot_excel, each of which starts
\* with ensure_tracking_columns
handler_run(hdr, sheet) == ensure_tracking_columns(page_load(hdr, sheet))

\* a run of the script in which no button was clicked, and so the run that
\* st.rerun() asks for.  Here and in the handlers below the file accesses of
\* a run up to its next wait (load, save, load, save, load for the page
\* load) follow each other with no other writer in between; runs whose file
\* accesses interleave are the subject of SpecRace
LoadPage ==
    /\ header' = page_load(header, rows)
    /\ last' = Result("idle")
    /\ UNCHANGED <<rows, now, procs>>

\* "Reserve this slot", up to the call of send_email_with_ics: the page
\* load and reserve_excel_slot; refused, the run ends (st.stop); else the
\* run goes on to send the confirmation mail
SignupsReserve(r, u) ==
    LET res == reserve_excel_slot(rows, r, u, now)
        p   == SessionOf(u)
    IN  /\ procs[p].pc = "idle"
        /\ last' = [Result("reserve") EXCEPT
                       !.row = r, !.ok = res.ok, !.msg = res.msg,
                       !.mail = IF res.ok THEN "pending" ELSE "none"]
        /\ rows' = res.rows
        /\ header' = handler_run(header, rows)
        /\ procs' = IF res.ok
                    THEN [procs EXCEPT ![p] = [Idle EXCEPT !.pc = "mailing",
                                                           !.op = "reserve",
                                                           !.row = r, !.ok = TRUE]]
                    ELSE procs
        /\ UNCHANGED now

\* faulty handler, for the sensitivity of C14: a failed confirmation mail
\* takes the reservation back
ConfirmationMail_rollback(p, mail_ok) ==
    /\ procs[p].pc = "mailing"
    /\ last' = [Result("reserve") EXCEPT
                   !.row = procs[p].row, !.msg = "Reserved!",
                   !.mail = IF mail_ok THEN "sent" ELSE "failed"]
    /\ rows' = IF mail_ok \/ procs[p].row > Len(rows) THEN rows
               ELSE [rows EXCEPT ![procs[p].row] = cancel_write(@)]
    /\ procs' = [procs EXCEPT ![p] = Idle]
    /\ UNCHANGED <<header, now>>

\* send_email_with_ics returns or raises, the run shows "Reserved!
\* Confirmation email sent" or "Reserved, but email FAILED", and st.rerun()
\* ends it; the run st.rerun() asks for is a LoadPage
ConfirmationMail(p, mail_ok) ==
    /\ procs[p].pc = "mailing"
    /\ last' = [Result("reserve") EXCEPT
                   !.row = procs[p].row, !.msg = "Reserved!",
                   !.mail = IF mail_ok THEN "sent" ELSE "failed"]
    /\ procs' = [procs EXCEPT ![p] = Idle]
    /\ UNCHANGED <<header, rows, now>>

\* "Cancel": the page load and cancel_excel_reservation, then st.rerun()
\* whatever it returned
SignupsCancel(r, email) ==
    LET res == cancel_excel_reservation(rows, r, email)
    IN  /\ last' = [Result("cancel") EXCEPT
                       !.row = r, !.ok = res.ok, !.msg = res.msg]
        /\ rows' = res.rows
        /\ header' = handler_run(header, rows)
        /\ UNCHANGED <<now, procs>>

\* "Add slot to Excel", with what the admin typed: without an event name
\* the run shows the error after its page load and calls no workbook
\* function; else admin_add_slot_excel and st.rerun()
AdminAddSlot ==
    /\ procs["admin"].todo # <<>>
    /\ LET ev      == Head(procs["admin"].todo).ev
           start_t == Head(procs["admin"].todo).start
           res     == admin_add_slot_excel(rows, ev, <<"H", "q", " ">>, 1, start_t,
                                           start_t + 60, 1, <<"K">>)
       IN  IF Strip(ev) = <<>>
           THEN /\ last' = [Result("add") EXCEPT !.ok = FALSE,
                                                 !.msg = "Event name is required."]
                /\ header' = page_load(header, rows)
                /\ rows' = rows
           ELSE /\ last' = [Result("add") EXCEPT !.row = res.row]
                /\ header' = handler_run(header, rows)
                /\ rows' = res.rows
    /\ procs' = [procs EXCEPT !["admin"].todo = Tail(@)]
    /\ UNCHANGED now

\* the addresses a run of main can mail
Recipients(sheet) ==
    {Strip(sheet[r]["EMAIL"]) : r \in {r \in 1..Len(sheet) : sweep_eligible(sheet[r])}}

\* smtp_ready(cfg): cfg is whether load_secrets found the four SMTP settings
smtp_ready(cfg) == cfg

\* a run of reminder.py that finds SMTP not configured
SweepNotConfigured ==
    /\ ~smtp_ready(FALSE)
    /\ last' = [Result("sweep") EXCEPT !.ok = FALSE, !.done = FALSE,
                                       !.msg = "SMTP not configured."]
    /\ UNCHANGED <<header, rows, now, procs>>

\* a run of reminder.py with SMTP configured starts: load_workbook and
\* datetime.now().  What the run before it printed is kept when this run
\* starts right after it.
SweepLoad ==
    /\ procs["cron"].pc = "idle"
    /\ smtp_ready(TRUE)
    /\ procs' = [procs EXCEPT !["cron"] =
                    [Idle EXCEPT !.pc = "loaded", !.op = "sweep", !.hdr = header,
                                 !.wb = rows, !.t = now,
                                 !.prev = IF last.op = "sweep" THEN last
                                          ELSE Result("idle")]]
    /\ UNCHANGED <<header, rows, now, last>>

\* the run goes through the rows of the workbook it loaded, sends its mails
\* and ends: wb.save writes that workbook over the file, unless send_email
\* raised, for one of the addresses in bad, and the run ended without saving
SweepSave(bad, seed) ==
    /\ procs["cron"].pc = "loaded"
    /\ \E res \in {sweep(procs["cron"].wb, procs["cron"].t, bad,
                         [r \in 1..Len(procs["cron"].wb) |-> uuid4(seed, r)])} :
           /\ last' = [Result("sweep") EXCEPT !.out = res.out, !.done = res.done]
           /\ header' = IF res.done THEN ensure_tracking_columns(procs["cron"].hdr)
                        ELSE header
           /\ rows' = IF res.done THEN res.rows ELSE rows
    /\ procs' = [procs EXCEPT !["cron"] = Idle]
    /\ UNCHANGED now

\* time passes
Tick(t) ==
    /\ t > now
    /\ now' = t
    /\ last' = Result("idle")
    /\ UNCHANGED <<header, rows, procs>>

\* the portal, on a machine on which reminder.py is not scheduled
Next ==
    \/ LoadPage
    \/ \E r \in ListedRows(rows), u \in Accounts : SignupsReserve(r, u)
    \/ \E p \in Sessions, mail_ok \in BOOLEAN : ConfirmationMail(p, mail_ok)
    \/ \E r \in ListedRows(rows), e \in CancelEmails : SignupsCancel(r, e)
    \/ AdminAddSlot
    \/ \E t \in TimePoints : Tick(t)

Spec == Init /\ [][Next]_vars

(***************************************************************************)
(* reminder.py alone: its runs follow each other at any distance, some of  *)
(* its mails are refused, and nothing else writes the file.  The workbook  *)
(* is one the portal is started on or one it has left a reservation in.    *)
(***************************************************************************)
MainSheets ==
    InitSheets
    \cup {<<FullHeaders, <<DoneRow, ReservedRow(1, 30, u, 30)>> >> : u \in Accounts}

InitMain ==
    /\ \E s \in MainSheets : header = s[1] /\ rows = s[2]
    /\ now = 30
    /\ last = Result("idle")
    /\ procs = NoCalls

NextMain ==
    \/ SweepNotConfigured
    \/ SweepLoad
    \/ \E bad \in {{}} \cup {{e} : e \in Recipients(procs["cron"].wb)}, seed \in Seeds :
          SweepSave(bad, seed)
    \/ \E t \in TimePoints : Tick(t)

SpecMain == InitMain /\ [][NextMain]_vars

(***************************************************************************)
(* The portal and reminder.py on one workbook: the steps of the portal and *)
(* the load and the save of main follow each other in any order, and time  *)
(* passes.  One user is logged in, and the admin.  The workbook has been   *)
(* edited by hand: a slot whose names were deleted and a row whose slot    *)
(* was deleted still hold the sent flags of the reminders that had gone    *)
(* out.                                                                    *)
(***************************************************************************)
\* a row emptied by hand but for its SENT_1H cell
StaleNoteRow == [EmptyRow EXCEPT !["SENT_1H"] = <<TRUE>>]

BothSheets == { <<FullHeaders, <<StaleNoteRow, SpaceRow>> >> }

\* the admin adds one slot
BothScripts == {<<i>> : i \in {i \in AddInputs : Strip(i.ev) # <<>>}}

InitBoth ==
    /\ \E s \in BothSheets : header = s[1] /\ rows = s[2]
    /\ now = 30
    /\ last = Result("idle")
    /\ \E s \in BothScripts : procs = [NoCalls EXCEPT !["admin"].todo = s]

NextBoth ==
    \/ LoadPage
    \/ \E r \in ListedRows(rows) : SignupsReserve(r, UserOf("s1"))
    \/ \E mail_ok \in BOOLEAN : ConfirmationMail("s1", mail_ok)
    \/ \E r \in ListedRows(rows), u \in Accounts : SignupsCancel(r, u.email)
    \/ AdminAddSlot
    \/ SweepLoad
    \/ \E bad \in {{}} \cup {{e} : e \in Recipients(procs["cron"].wb)} :
          SweepSave(bad, "p")
    \/ \E t \in TimePoints : Tick(t)

SpecBoth == InitBoth /\ [][NextBoth]_vars

(***************************************************************************)
(* reminder.py under a scheduler: main is run again and again, each run    *)
(* less than an hour after the one before, every send succeeds and nothing *)
(* else writes the file.  The gaps need not be equal, so the runs at any   *)
(* one fixed interval of Intervals are among the behaviours.               *)
(***************************************************************************)
MaxInterval == 59
Intervals == {20, 45, MaxInterval}

\* the last instant at which the scheduler starts a run
CronEnd == 2960

\* two reservations whose 24-hour windows open at 1410 and 1455, and an open
\* slot between them
CronSheet ==
    LET a == CHOOSE u \in Accounts : u.id = <<1>>
        b == CHOOSE u \in Accounts : u.id = <<2>>
    IN  <<ReservedRow(2, 0, a, 30), OpenRow(2, 10), ReservedRow(2, 45, b, 30)>>

\* the scheduler starts before the first window opens
CronStarts == 1400..1409

InitCron ==
    /\ header = FullHeaders
    /\ rows = CronSheet
    /\ now \in CronStarts
    /\ last = Result("idle")
    /\ procs = NoCalls

\* the next run of main, gap minutes after the last
CronSweep(gap, seed) ==
    LET t   == now + gap
        res == sweep(rows, t, {}, [r \in 1..Len(rows) |-> uuid4(seed, r)])
    IN  /\ t <= CronEnd
        /\ smtp_ready(TRUE)
        /\ now' = t
        /\ header' = IF res.done THEN ensure_tracking_columns(header) ELSE header
        /\ rows' = res.rows
        /\ last' = [Result("sweep") EXCEPT !.out = res.out, !.done = res.done]
        /\ UNCHANGED procs

NextCron == \E gap \in Intervals, seed \in Seeds : CronSweep(gap, seed)

SpecCron == InitCron /\ [][NextCron]_vars

(***************************************************************************)
(* The header row alone: every layout of up to MaxCols header cells, among *)
(* them empty cells between headers, a cell holding one space and a header *)
(* typed in lower case, on which the page load and reminder.py provision   *)
(* the tracking columns.                                                   *)
(***************************************************************************)
MaxCols == 3
HeaderCells == {"", " ", "EVENT", "EMAIL", "email", "GCAL_UID"}

RECURSIVE Layouts(_)
Layouts(n) ==
    IF n = 0 THEN {<<>>}
    ELSE Layouts(n - 1)
         \cup {Append(h, c) : h \in {h \in Layouts(n - 1) : Len(h) = n - 1},
                              c \in HeaderCells}

InitHeaders ==
    /\ header \in Layouts(MaxCols)
    /\ rows = <<>>
    /\ now = 30
    /\ last = Result("idle")
    /\ procs = NoCalls

NextHeaders ==
    \/ LoadPage
    \/ SweepLoad
    \/ \E seed \in Seeds : SweepSave({}, seed)

SpecHeaders == InitHeaders /\ [][NextHeaders]_vars

(***************************************************************************)
(* Overlapping runs.  reserve_excel_slot, cancel_excel_reservation,        *)
(* admin_add_slot_excel and main of reminder.py each load the whole        *)
(* workbook, work on that copy in memory and save the whole workbook; no   *)
(* lock is taken.  In the app each of them, and list_slots, first calls    *)
(* ensure_tracking_columns, which loads the workbook and saves it whether  *)
(* or not it added a header.  Every file access is a step here.  A script  *)
(* run of a session is: ensure_tracking_columns (load, save), list_slots   *)
(* (load, save, load), and, when a button was clicked, the handler's call  *)
(* (load, save, load, save unless refused); after st.rerun() the script    *)
(* runs once more from the top (load, save, load, save, load).  main of    *)
(* reminder.py is two steps, its load and its save.  Each session makes    *)
(* one click and reminder.py runs once.                                    *)
(***************************************************************************)
\* a reservation of user 2 whose 24-hour reminder is due at 30, alone or
\* below an open slot
RaceSheets ==
    LET b == CHOOSE u \in Accounts : u.id = <<2>>
    IN  { <<OpenRow(1, 30), ReservedRow(1, 30, b, 0)>>,
          <<ReservedRow(1, 30, b, 0)>> }

InitRace ==
    /\ header = FullHeaders
    /\ rows \in RaceSheets
    /\ now = 30
    /\ last = Result("idle")
    /\ procs = NoCalls

\* where a run stands in ensure_tracking_columns, between its load and its
\* save: in the call at the top of the script (e1), in list_slots (e2), in
\* the handler's call (e3), and in the two of the run after st.rerun()
EnsurePcs == {"e1", "e2", "e3", "e4", "e5"}

\* the run holds a workbook it loaded and may yet save
Holding(p) == procs[p].pc \in EnsurePcs \cup {"loaded"}

\* faulty load, for the sensitivity of C18: the call works on the file as it
\* is when the call saves
LoadedCopy_reread(p) == rows

\* wb = load_wb(path): the workbook call p works on
LoadedCopy(p) == procs[p].wb

\* faulty save, for the sensitivity of C19: only the rows the call changed
\* are written, the others are kept as they are in the file
wb_save_changed_rows(file, before, after) ==
    [i \in 1..Len(after) |->
        IF i <= Len(before) /\ i <= Len(file) /\ after[i] = before[i]
        THEN file[i] ELSE after[i]]

\* wb.save(path): the file is replaced by the workbook in memory
wb_save(file, before, after) == after

\* ensure_tracking_columns loads the file: at the top of a script run, in
\* list_slots, in the handler's call, and again in the run after st.rerun()
EnsureLoad(p) ==
    /\ procs[p].pc \in {"idle", "p1", "clicked", "returned", "r1"}
    /\ procs' = [procs EXCEPT
                    ![p].pc = CASE procs[p].pc = "idle"     -> "e1"
                                [] procs[p].pc = "p1"       -> "e2"
                                [] procs[p].pc = "clicked"  -> "e3"
                                [] procs[p].pc = "returned" -> "e4"
                                [] procs[p].pc = "r1"       -> "e5",
                    ![p].ewb = rows, ![p].over = {}]
    /\ UNCHANGED <<header, rows, now, last>>

\* ensure_tracking_columns ends: with every tracking header present it has
\* changed nothing in its workbook, and it saves that workbook all the same
SaveEnsure(p) ==
    /\ procs[p].pc \in EnsurePcs
    /\ rows' = wb_save(rows, procs[p].ewb, procs[p].ewb)
    /\ procs' = [procs EXCEPT
                    ![p].pc = CASE procs[p].pc = "e1" -> "p1"
                                [] procs[p].pc = "e2" -> "p2"
                                [] procs[p].pc = "e3" -> "h"
                                [] procs[p].pc = "e4" -> "r1"
                                [] procs[p].pc = "e5" -> "r2",
                    ![p].ewb = <<>>]
    /\ UNCHANGED <<header, now, last>>

\* list_slots loads the file and the page is shown.  In the first run of
\* the session the user has clicked "Reserve this slot" or "Cancel" for one
\* of the rows listed or "Add slot to Excel", or nothing ("none"); the run
\* after st.rerun() ends here.
ListSlots(p, op, r) ==
    /\ procs[p].pc \in {"p2", "r2"}
    /\ (procs[p].pc = "r2") => (op = "none")
    /\ (op \in {"reserve", "cancel"}) => (r \in ListedRows(rows))
    /\ (op \in {"add", "none"}) => (r = 0)
    /\ procs' = [procs EXCEPT ![p] =
                    IF op = "none" THEN [@ EXCEPT !.pc = "done"]
                    ELSE [@ EXCEPT !.pc = "clicked", !.op = op, !.row = r]]
    /\ UNCHANGED <<header, rows, now, last>>

\* the call's own load of the file: after ensure_tracking_columns in the
\* app, the first file access in main of reminder.py
StartCall(p) ==
    /\ procs[p].pc = (IF p = "cron" THEN "idle" ELSE "h")
    /\ procs' = [procs EXCEPT ![p].pc = "loaded", ![p].wb = rows,
                              ![p].over = {},
                              ![p].op = IF p = "cron" THEN "sweep" ELSE @]
    /\ UNCHANGED <<header, rows, now, last>>

\* ws.cell(row, col) on a row below the last one of the worksheet: the cells
\* of the rows down to it exist and are empty
CellsDownTo(sheet, r) ==
    IF r > Len(sheet) THEN sheet \o [i \in 1..(r - Len(sheet)) |-> EmptyRow] ELSE sheet

\* what call p computes on the workbook it loaded: its return value, whether
\* it saves, the workbook it would save and the mails it sends
CallResult(p) ==
    LET wb == LoadedCopy(p)
        r  == procs[p].row
    IN  CASE procs[p].op = "reserve" ->
               LET res == reserve_excel_slot(CellsDownTo(wb, r), r, UserOf(p), now)
               IN  [ok |-> res.ok, saves |-> res.ok, rows |-> res.rows, out |-> <<>>]
          [] procs[p].op = "cancel" ->
               LET res == cancel_excel_reservation(CellsDownTo(wb, r), r, UserOf(p).email)
               IN  [ok |-> res.ok, saves |-> res.ok, rows |-> res.rows, out |-> <<>>]
          [] procs[p].op = "add" ->
               LET res == admin_add_slot_excel(wb, <<" ", "O", "h">>, <<"H", "q", " ">>,
                                               1, 60, 120, 1, <<"K">>)
               IN  [ok |-> TRUE, saves |-> TRUE, rows |-> res.rows, out |-> <<>>]
          [] procs[p].op = "sweep" ->
               LET res == sweep(wb, now, {}, [k \in 1..Len(wb) |-> uuid4("p", k)])
               IN  [ok |-> res.done, saves |-> res.done, rows |-> res.rows,
                    out |-> res.out]

\* the call ends: it saves, unless it was refused, and returns.  A refused
\* reserve ends the run (st.stop); after the other calls comes st.rerun().
\* Each other run that holds a workbook it loaded before this save has this
\* process added to its `over`.
FinishCall(p) ==
    /\ procs[p].pc = "loaded"
    /\ \E c \in {CallResult(p)} :
           /\ rows' = IF c.saves THEN wb_save(rows, procs[p].wb, c.rows) ELSE rows
           /\ procs' = [x \in Procs |->
                 IF x = p
                 THEN [procs[p] EXCEPT
                         !.pc = IF p = "cron" \/ (procs[p].op = "reserve" /\ ~c.ok)
                                THEN "done" ELSE "returned",
                         !.ok = c.ok, !.out = c.out, !.wb = <<>>]
                 ELSE IF c.saves /\ Holding(x)
                      THEN [procs[x] EXCEPT !.over = @ \cup {p}]
                      ELSE procs[x]]
    /\ UNCHANGED <<header, now, last>>

NextRace ==
    \/ \E p \in Sessions : EnsureLoad(p)
    \/ \E p \in Sessions : SaveEnsure(p)
    \/ \E p \in Sessions, op \in {"none", "reserve", "cancel", "add"},
          r \in 0..Len(rows) : ListSlots(p, op, r)
    \/ \E p \in Procs : StartCall(p)
    \/ \E p \in Procs : FinishCall(p)

SpecRace == InitRace /\ [][NextRace]_vars

(***************************************************************************)
(* The scheduler with one address out of order.  main of reminder.py runs  *)
(* again and again, less than an hour apart, and send_email raises every   *)
(* time for the address of user 1.  procs["cron"].out collects the         *)
(* send_email calls of all the runs, in order.                             *)
(***************************************************************************)
\* the last instant at which the scheduler starts a run: the 24-hour windows
\* of OutageSheet have closed by then
OutageEnd == 1530

\* three reservations for the same start, the second one by the user whose
\* address fails
OutageSheet ==
    LET a == CHOOSE u \in Accounts : u.id = <<1>>
        b == CHOOSE u \in Accounts : u.id = <<2>>
    IN  <<ReservedRow(2, 0, b, 30), ReservedRow(2, 0, a, 30), ReservedRow(2, 0, b, 30)>>

FailingAddresses == {Lower(Strip((CHOOSE u \in Accounts : u.id = <<1>>).email))}

InitOutage ==
    /\ header = FullHeaders
    /\ rows = OutageSheet
    /\ now \in CronStarts
    /\ last = Result("idle")
    /\ procs = NoCalls

\* the next run of main, gap minutes after the last
OutageSweep(gap, seed) ==
    LET t   == now + gap
        res == sweep(rows, t, FailingAddresses, [r \in 1..Len(rows) |-> uuid4(seed, r)])
    IN  /\ t <= OutageEnd
        /\ smtp_ready(TRUE)
        /\ now' = t
        /\ header' = IF res.done THEN ensure_tracking_columns(header) ELSE header
        /\ rows' = res.rows
        /\ last' = [Result("sweep") EXCEPT !.out = res.out, !.done = res.done]
        /\ procs' = [procs EXCEPT !["cron"].out = @ \o res.out]

NextOutage == \E gap \in Intervals, seed \in Seeds : OutageSweep(gap, seed)

SpecOutage == InitOutage /\ [][NextOutage]_vars

(***************************************************************************)
(* Vocabulary of the properties.                                           *)
(***************************************************************************)
ReservationCols ==
    {"FIRST NAME", "LAST NAME", "EMAIL", "USER_ID", "RESERVED_AT", "SENT_24H",
     "SENT_1H", "GCAL_UID"}

DescriptiveCols ==
    {"EVENT", "LOCATION", "DATE", "START TIME", "END TIME", "HOURS",
     "CONTACT PERSON", "COMPLETED"}

FirstBlank(row) == Strip(row["FIRST NAME"]) = <<>>
LastBlank(row) == Strip(row["LAST NAME"]) = <<>>

\* a name cell is non-blank once whitespace is stripped
NameFilled(row) == ~FirstBlank(row) \/ ~LastBlank(row)

\* both name cells are non-blank
BothNames(row) == ~FirstBlank(row) /\ ~LastBlank(row)

\* exactly one of the two name cells is non-blank
OneName(row) == NameFilled(row) /\ ~BothNames(row)

\* the row has a non-blank email and its event, date, start and end present
Remindable(row) ==
    /\ Strip(row["EMAIL"]) # <<>>
    /\ row["EVENT"] # <<>> /\ row["DATE"] # <<>>
    /\ row["START TIME"] # <<>> /\ row["END TIME"] # <<>>

\* start - now of a row whose date and start time are present
DeltaOf(row, t) == row["DATE"][1] * MinutesPerDay + row["START TIME"][1] - t

\* the send_email calls of a run for data row r and the given reminder
MailsFor(out, r, kind) == {i \in 1..Len(out) : out[i].row = r /\ out[i].kind = kind}

\* the step is the end of a run of main that got past the smtp_ready guard:
\* the mails it has sent are in last'.out, and rows' is the file it leaves
SweepRan == procs["cron"].pc = "loaded" /\ procs'["cron"].pc = "idle"

\* the data rows that run loaded, and the datetime.now() it read
Loaded == procs["cron"].wb
LoadedAt == procs["cron"].t

\* what the run before it printed, when that run started right after one
Before == procs["cron"].prev

\* the step is a run of main in which no send_email to row r's address raised
OwnMailFine(r) ==
    \A i \in 1..Len(last'.out) :
        last'.out[i].to = Strip(Loaded[r]["EMAIL"]) => last'.out[i].ok

\* the row carries user a as reserve_excel_slot writes a user
HeldBy(row, a) ==
    /\ row["FIRST NAME"] = Strip(a.first_name)
    /\ row["LAST NAME"] = Strip(a.last_name)
    /\ row["EMAIL"] = Lower(Strip(a.email))
    /\ row["USER_ID"] = a.id

(***************************************************************************)
(* C1: reserve_excel_slot on a slot whose FIRST NAME or LAST NAME is       *)
(* non-blank once stripped returns (False, message), for every user, and   *)
(* leaves the sheet, so each reservation cell of the slot, as it was.      *)
(***************************************************************************)
C1_RejectTakenStep ==
    \A r \in 1..Len(rows), u \in Accounts :
        (SignupsReserve(r, u) /\ NameFilled(rows[r]))
        => /\ ~last'.ok
           /\ last'.msg = "That slot is already taken."
           /\ Len(rows') = Len(rows)
           /\ \A c \in ReservationCols : rows'[r][c] = rows[r][c]

C1_RejectTaken == [][C1_RejectTakenStep]_vars

\* a reserve was just refused on a slot that carries both names
C1_Witness ==
    /\ last.op = "reserve" /\ ~last.ok
    /\ BothNames(rows[last.row])

(***************************************************************************)
(* C2: a successful reserve_excel_slot of an open slot by user u, read     *)
(* back through list_slots, gives a Slot that is_taken, whose row holds    *)
(* u's lower-cased email and u's id, SENT_24H = SENT_1H = False and an     *)
(* empty GCAL_UID; and reserve succeeds on every open slot.                *)
(***************************************************************************)
C2_ReserveOpenStep ==
    \A r \in 1..Len(rows), u \in Accounts :
        (SignupsReserve(r, u) /\ ~NameFilled(rows[r]))
        => /\ last'.ok
           /\ r \in ListedRows(rows')
           /\ is_taken(SlotOf(rows', r))
           /\ SlotOf(rows', r).email = Lower(Strip(u.email))
           /\ rows'[r]["EMAIL"] = Lower(Strip(u.email))
           /\ rows'[r]["USER_ID"] = u.id
           /\ rows'[r]["SENT_24H"] = <<FALSE>>
           /\ rows'[r]["SENT_1H"] = <<FALSE>>
           /\ rows'[r]["GCAL_UID"] = <<>>

C2_ReserveOpen == [][C2_ReserveOpenStep]_vars

\* a reserve just succeeded on the slot whose tracking cells were left over
\* from an earlier reservation (the slot starting at minute 61)
C2_Witness ==
    /\ last.op = "reserve" /\ last.ok
    /\ rows[last.row]["START TIME"] = <<61>>
    /\ is_taken(SlotOf(rows, last.row))
    /\ ~Bool(rows[last.row]["SENT_24H"])
    /\ rows[last.row]["GCAL_UID"] = <<>>

(***************************************************************************)
(* C3, as claimed: cancel_excel_reservation returns a failure and leaves   *)
(* every cell of the slot as it was whenever the stored email differs from *)
(* the requester's (both stripped and lower-cased) or the COMPLETED cell   *)
(* is non-empty; it succeeds only when the emails match and COMPLETED is   *)
(* empty.                                                                  *)
(***************************************************************************)
C3_NonEmptyStep ==
    \A r \in 1..Len(rows), e \in CancelEmails :
        (last'.op = "cancel" /\ last'.row = r /\ SignupsCancel(r, e))
        => LET other == Lower(Strip(rows[r]["EMAIL"])) # Lower(Strip(e))
               done  == rows[r]["COMPLETED"] # <<>>
           IN  /\ (other \/ done) => (~last'.ok /\ rows' = rows)
               /\ last'.ok => (~other /\ ~done)

C3_NonEmptyRule == [][C3_NonEmptyStep]_vars

(***************************************************************************)
(* C3, amended: the COMPLETED cell is stripped before it is tested.        *)
(* cancel_excel_reservation returns a failure and leaves every cell of the *)
(* slot as it was whenever the stored email differs from the requester's   *)
(* (both stripped and lower-cased) or COMPLETED holds something other than *)
(* whitespace; it succeeds only when the emails match and COMPLETED is     *)
(* empty or whitespace, and then it does succeed.                          *)
(***************************************************************************)
C3_CancelRejectStep ==
    \A r \in 1..Len(rows), e \in CancelEmails :
        (last'.op = "cancel" /\ last'.row = r /\ SignupsCancel(r, e))
        => LET other == Lower(Strip(rows[r]["EMAIL"])) # Lower(Strip(e))
               done  == Strip(rows[r]["COMPLETED"]) # <<>>
           IN  /\ (other \/ done) => (~last'.ok /\ rows' = rows)
               /\ last'.ok = (~other /\ ~done)

C3_CancelReject == [][C3_CancelRejectStep]_vars

\* the cancel of its reserver has just succeeded on the slot whose COMPLETED
\* cell holds one space
C3_Witness ==
    /\ last.op = "cancel" /\ last.ok
    /\ rows[last.row]["COMPLETED"] = <<" ">>
    /\ rows[last.row]["EMAIL"] = <<>>

(***************************************************************************)
(* C4: a successful cancel_excel_reservation leaves the slot open: first   *)
(* name, last name, email, user id, reserved-at and calendar UID blank,    *)
(* SENT_24H = SENT_1H = False, and the descriptive cells (event, location, *)
(* date, times, hours, contact, completed) as they were.                   *)
(***************************************************************************)
C4_CancelClearsStep ==
    \A r \in 1..Len(rows), e \in CancelEmails :
        (last'.op = "cancel" /\ last'.row = r /\ last'.ok /\ SignupsCancel(r, e))
        => /\ \A c \in {"FIRST NAME", "LAST NAME", "EMAIL", "USER_ID",
                        "RESERVED_AT", "GCAL_UID"} : rows'[r][c] = <<>>
           /\ rows'[r]["SENT_24H"] = <<FALSE>>
           /\ rows'[r]["SENT_1H"] = <<FALSE>>
           /\ \A c \in DescriptiveCols : rows'[r][c] = rows[r][c]
           /\ ~NameFilled(rows'[r])
           /\ r \in ListedRows(rows) => ~is_taken(SlotOf(rows', r))

C4_CancelClears == [][C4_CancelClearsStep]_vars

\* a cancel just succeeded and the slot is listed as open
C4_Witness ==
    /\ last.op = "cancel" /\ last.ok
    /\ last.row \in ListedRows(rows)
    /\ ~is_taken(SlotOf(rows, last.row))
    /\ rows[last.row]["SENT_1H"] = <<FALSE>>

(***************************************************************************)
(* C5: wherever the program decides whether a slot is taken (the guard of  *)
(* reserve_excel_slot, is_taken of the listing filter, the label), the     *)
(* slot is taken exactly when its first name or its last name is non-blank *)
(* once stripped; whitespace-only names are blank.                         *)
(***************************************************************************)
C5_ListingRule ==
    LET slots == list_slots(header, rows).slots
    IN  \A i \in 1..Len(slots) :
            LET taken == NameFilled(rows[slots[i].row])
            IN  /\ is_taken(slots[i]) = taken
                /\ label_taken(slots[i]) = taken
                /\ (i \in filtered(slots, now, FALSE, FALSE)) = ~taken

C5_ReserveRule ==
    \A r \in 1..Len(rows), u \in Accounts :
        SignupsReserve(r, u) => (last'.ok = ~NameFilled(rows[r]))

C5_TakenRule == [](C5_ListingRule) /\ [][C5_ReserveRule]_vars

\* a reserve just succeeded on the slot whose first name cell held one space
\* (the slot starting at minute 61), which the listing had offered as open
C5_Witness ==
    /\ last.op = "reserve" /\ last.ok
    /\ rows[last.row]["START TIME"] = <<61>>
    /\ BothNames(rows[last.row])
    /\ \E i \in 1..Len(list_slots(header, rows).slots) :
          list_slots(header, rows).slots[i].row = last.row /\ label_taken(list_slots(header, rows).slots[i])

(***************************************************************************)
(* C6, as claimed: a slot is taken if and only if both its first name and  *)
(* its last name are non-empty, so that a slot with exactly one of them    *)
(* filled is not taken and can be reserved.                                *)
(***************************************************************************)
C6_BothNamesStep ==
    \A r \in 1..Len(rows), u \in Accounts :
        SignupsReserve(r, u) => (last'.ok = ~BothNames(rows[r]))

C6_BothNamesRule == [][C6_BothNamesStep]_vars

(***************************************************************************)
(* C6, amended: one non-blank name is enough.  A slot with exactly one of  *)
(* the two name cells filled is taken: the listing marks it taken and does *)
(* not offer it as open, and reserve_excel_slot refuses it and leaves the  *)
(* sheet as it was.                                                        *)
(***************************************************************************)
C6_OneNameListed ==
    LET slots == list_slots(header, rows).slots
    IN  \A i \in 1..Len(slots) :
            OneName(rows[slots[i].row])
            => /\ is_taken(slots[i])
               /\ label_taken(slots[i])
               /\ i \notin filtered(slots, now, FALSE, FALSE)

C6_OneNameStep ==
    \A r \in 1..Len(rows), u \in Accounts :
        (SignupsReserve(r, u) /\ OneName(rows[r]))
        => (~last'.ok /\ rows' = rows)

C6_OneNameTaken == [](C6_OneNameListed) /\ [][C6_OneNameStep]_vars

\* a reserve was just refused on a slot that carries a last name only
C6_Witness ==
    /\ last.op = "reserve" /\ ~last.ok
    /\ OneName(rows[last.row])
    /\ FirstBlank(rows[last.row])

(***************************************************************************)
(* C7, as claimed: in one run of main, for every row with a non-blank      *)
(* email and event, date, start and end present, the 24-hour reminder is   *)
(* sent iff 23.5h <= delta <= 24.5h and SENT_24H is false, and the 1-hour  *)
(* reminder iff 0.5h <= delta <= 1.5h and SENT_1H is false; other rows get *)
(* no reminder.  "Sent" is read as handed to send_email, whether or not    *)
(* SMTP then accepts it.                                                   *)
(***************************************************************************)
C7_WindowStep ==
    SweepRan =>
    \A r \in 1..Len(Loaded) :
        LET row == Loaded[r]
        IN  IF Remindable(row)
            THEN LET delta == DeltaOf(row, LoadedAt)
                 IN  /\ (MailsFor(last'.out, r, "24h") # {})
                          = (23 * 60 + 30 <= delta /\ delta <= 24 * 60 + 30
                               /\ ~Bool(row["SENT_24H"]))
                     /\ (MailsFor(last'.out, r, "1h") # {})
                          = (30 <= delta /\ delta <= 90 /\ ~Bool(row["SENT_1H"]))
            ELSE MailsFor(last'.out, r, "24h") = {} /\ MailsFor(last'.out, r, "1h") = {}

C7_WindowRule == [][C7_WindowStep]_vars

(***************************************************************************)
(* C8: for a reserved slot with start = now + 24h and SENT_24H false, one  *)
(* completed run of main sends exactly one 24-hour reminder for it and     *)
(* leaves SENT_24H true in the file; a run that follows immediately sends  *)
(* no 24-hour reminder for that slot.                                      *)
(***************************************************************************)
C8_FirstRunStep ==
    (SweepRan /\ last'.done) =>
    \A r \in 1..Len(Loaded) :
        (Remindable(Loaded[r]) /\ DeltaOf(Loaded[r], LoadedAt) = 24 * 60
           /\ ~Bool(Loaded[r]["SENT_24H"]))
        => /\ Cardinality(MailsFor(last'.out, r, "24h")) = 1
           /\ \A i \in MailsFor(last'.out, r, "24h") : last'.out[i].ok
           /\ Bool(rows'[r]["SENT_24H"])

C8_SecondRunStep ==
    (SweepRan /\ Before.op = "sweep" /\ Before.done) =>
    \A r \in 1..Len(Loaded) :
        (MailsFor(Before.out, r, "24h") # {}) => (MailsFor(last'.out, r, "24h") = {})

C8_Once24h == [][C8_FirstRunStep /\ C8_SecondRunStep]_vars

\* a completed run has just sent the 24-hour reminder of a slot that starts
\* in exactly 24 hours, and the file has SENT_24H true for it
C8_Witness ==
    /\ last.op = "sweep" /\ last.done
    /\ \E r \in 1..Len(rows) :
          /\ Remindable(rows[r])
          /\ DeltaOf(rows[r], now) = 24 * 60
          /\ MailsFor(last.out, r, "24h") # {}
          /\ Bool(rows[r]["SENT_24H"])

(***************************************************************************)
(* C9, as claimed: for a reserved slot with start = now + 1h and SENT_1H   *)
(* false, a run of main sends exactly one 1-hour reminder and sets SENT_1H *)
(* true whatever SENT_24H is, and leaves SENT_24H as it was.  The mail to  *)
(* the slot's own address is taken to go out: a refusal of that mail by    *)
(* SMTP is not held against the run.                                       *)
(***************************************************************************)
C9_OneHourStep ==
    SweepRan =>
    \A r \in 1..Len(Loaded) :
        (Remindable(Loaded[r]) /\ DeltaOf(Loaded[r], LoadedAt) = 60
           /\ ~Bool(Loaded[r]["SENT_1H"]) /\ OwnMailFine(r))
        => /\ Cardinality(MailsFor(last'.out, r, "1h")) = 1
           /\ r <= Len(rows')
           /\ Bool(rows'[r]["SENT_1H"])
           /\ Bool(rows'[r]["SENT_24H"]) = Bool(Loaded[r]["SENT_24H"])

C9_OneHourRule == [][C9_OneHourStep]_vars

(***************************************************************************)
(* C10: once a run of main has stored a uuid4 in GCAL_UID of a reserved    *)
(* slot, every later run reads that UID, puts it in each invite it sends   *)
(* for the slot and leaves it in the file, as long as the slot is not      *)
(* reserved or cancelled in between.                                       *)
(***************************************************************************)
C10_UidKeptStep ==
    SweepRan =>
    \A r \in 1..Len(Loaded) :
        (Remindable(Loaded[r])
           /\ Loaded[r]["GCAL_UID"] \in {uuid4(sd, k) : sd \in Seeds, k \in 1..Len(Loaded)})
        => /\ last'.done => rows'[r]["GCAL_UID"] = Loaded[r]["GCAL_UID"]
           /\ \A i \in 1..Len(last'.out) :
                 last'.out[i].row = r => last'.out[i].uid = Loaded[r]["GCAL_UID"]

C10_UidStable == [][C10_UidKeptStep]_vars

\* a completed run has just sent the 1-hour invite of a slot whose 24-hour
\* reminder an earlier run had sent, under the UID that run stored
C10_Witness ==
    /\ last.op = "sweep" /\ last.done
    /\ \E r \in 1..Len(rows) :
          /\ Bool(rows[r]["SENT_24H"])
          /\ rows[r]["GCAL_UID"] \in {uuid4(sd, k) : sd \in Seeds, k \in 1..Len(rows)}
          /\ \E i \in MailsFor(last.out, r, "1h") :
                last.out[i].uid = rows[r]["GCAL_UID"]

(***************************************************************************)
(* C12: when main runs again and again less than an hour apart, every send *)
(* succeeds and nothing else writes the file, a slot that stays reserved   *)
(* from before its 24-hour window opens until after its 1-hour window      *)
(* closes gets exactly one 24-hour and exactly one 1-hour reminder.        *)
(* None is missed: once a window has closed (delta below its lower bound)  *)
(* the flag is true.  None is duplicated: a run sends a reminder at most   *)
(* once, only with the flag false before and true after, and a flag        *)
(* changes in no other way; so a true flag stands for exactly one send.    *)
(***************************************************************************)
C12_NoneMissed ==
    \A r \in 1..Len(rows) :
        Remindable(rows[r])
        => /\ (DeltaOf(rows[r], now) < 23 * 60 + 30) => Bool(rows[r]["SENT_24H"])
           /\ (DeltaOf(rows[r], now) < 30) => Bool(rows[r]["SENT_1H"])

C12_OnceStep ==
    \A r \in 1..Len(rows) :
        \A k \in {<<"24h", "SENT_24H">>, <<"1h", "SENT_1H">>} :
            LET n == Cardinality(MailsFor(last'.out, r, k[1]))
            IN  /\ n <= 1
                /\ (n = 1) => (~Bool(rows[r][k[2]]) /\ Bool(rows'[r][k[2]]))
                /\ (n = 0) => (Bool(rows'[r][k[2]]) = Bool(rows[r][k[2]]))
                /\ \A i \in MailsFor(last'.out, r, k[1]) : last'.out[i].ok

C12_ExactlyOnce == [](C12_NoneMissed) /\ [][C12_OnceStep]_vars

\* the last run was after the 1-hour window of every reserved slot had
\* closed, and both reminders of both reservations have gone out
C12_Witness ==
    /\ last.op = "sweep" /\ last.done /\ last.out = <<>>
    /\ \A r \in {1, 3} :
          /\ Remindable(rows[r])
          /\ DeltaOf(rows[r], now) < 30
          /\ Bool(rows[r]["SENT_24H"]) /\ Bool(rows[r]["SENT_1H"])

(***************************************************************************)
(* C13, as claimed: over any sequence of runs of main, also ones in which  *)
(* the send for some other slot fails, no reservation is sent the 24-hour  *)
(* reminder more than once nor the 1-hour reminder more than once: a       *)
(* reminder that one run sent is not sent again by the run after it.       *)
(***************************************************************************)
C13_NoDuplicateStep ==
    (SweepRan /\ Before.op = "sweep") =>
    \A r \in 1..Len(Loaded) : \A kind \in {"24h", "1h"} :
        (\E i \in MailsFor(Before.out, r, kind) : Before.out[i].ok)
        => MailsFor(last'.out, r, kind) = {}

C13_NoDuplicate == [][C13_NoDuplicateStep]_vars

(***************************************************************************)
(* C14: when the confirmation mail fails after a successful reserve (SMTP  *)
(* not configured, or the send raises: send_email_with_ics raises in both  *)
(* cases), the reservation is not undone: the slot stays taken by that     *)
(* user in the file, and the user is shown the failure notice, not the     *)
(* success notice.  The step in which the mail fails writes nothing to the *)
(* file; and when it comes right after the reserve, the slot carries the   *)
(* user and is among the user's reservations.                              *)
(***************************************************************************)
\* the step before was the reserve of session p, whose mail is still to come
JustReserved(p) ==
    /\ last.op = "reserve" /\ last.mail = "pending" /\ last.row = procs[p].row
    /\ \A q \in Sessions \ {p} : procs[q].pc # "mailing"

C14_MailFailStep ==
    \A p \in Sessions :
        ConfirmationMail(p, FALSE)
        => /\ last'.ok
           /\ last'.mail = "failed"
           /\ rows' = rows
           /\ JustReserved(p)
              => LET r == procs[p].row
                     u == UserOf(p)
                 IN  /\ HeldBy(rows'[r], u)
                     /\ is_taken(SlotOf(rows', r))
                     /\ \E i \in my_res(list_slots(header, rows').slots, u) :
                           list_slots(header, rows').slots[i].row = r

C14_MailFailKeeps == [][C14_MailFailStep]_vars

\* a reserve has just succeeded, its confirmation mail failed, and the slot
\* is among the user's reservations
C14_Witness ==
    /\ last.op = "reserve" /\ last.ok /\ last.mail = "failed"
    /\ \E u \in Accounts :
          /\ rows[last.row]["USER_ID"] = u.id
          /\ \E i \in my_res(list_slots(header, rows).slots, u) : list_slots(header, rows).slots[i].row = last.row

(***************************************************************************)
(* C15, as claimed: add_slot appends the new row after the first           *)
(* fully-blank row found scanning down from the header row, or at the end  *)
(* of the table when there is none, and the new row has blank first name,  *)
(* last name, completed, email, user id, reserved-at and calendar UID and  *)
(* SENT_24H = SENT_1H = False.                                             *)
(***************************************************************************)
FullyBlank(row) == \A c \in Columns : row[c] = <<>>

NewRowBlank(row) ==
    /\ \A c \in {"FIRST NAME", "LAST NAME", "COMPLETED", "EMAIL", "USER_ID",
                 "RESERVED_AT", "GCAL_UID"} : row[c] = <<>>
    /\ row["SENT_24H"] = <<FALSE>> /\ row["SENT_1H"] = <<FALSE>>

C15_AfterBlankStep ==
    (last'.op = "add" /\ last'.ok) =>
    LET blank == {r \in 1..Len(rows) : FullyBlank(rows[r])}
        first == CHOOSE r \in blank : \A q \in blank : r <= q
    IN  /\ last'.row = IF blank = {} THEN Len(rows) + 1 ELSE first + 1
        /\ NewRowBlank(rows'[last'.row])

C15_AfterBlank == [][C15_AfterBlankStep]_vars

(***************************************************************************)
(* C15, amended: "into", not "after".  add_slot writes the new slot into   *)
(* the first fully-blank row found scanning down from the header row when  *)
(* no row above it lacks event, date and start time, and into a new row    *)
(* below the last one when no row lacks event, date and start time; the    *)
(* table grows by that one row or not at all, and the written row has the  *)
(* event, date and start given, blank first name, last name, completed,    *)
(* email, user id, reserved-at and calendar UID, and SENT_24H = SENT_1H =  *)
(* False.  (Where the first row without event, date and start time holds   *)
(* other data, the slot is written over it: the subject of C22.)           *)
(***************************************************************************)
NoSlotIn(row) == row["EVENT"] = <<>> /\ row["DATE"] = <<>> /\ row["START TIME"] = <<>>

C15_IntoBlankStep ==
    (last'.op = "add" /\ last'.ok) =>
    LET blank == {r \in 1..Len(rows) : FullyBlank(rows[r])}
        first == CHOOSE r \in blank : \A q \in blank : r <= q
        free  == {r \in 1..Len(rows) : NoSlotIn(rows[r])}
        k     == last'.row
    IN  /\ (blank # {} /\ \A q \in free : first <= q) => k = first
        /\ free = {} => k = Len(rows) + 1
        /\ Len(rows') = (IF k > Len(rows) THEN k ELSE Len(rows))
        /\ NewRowBlank(rows'[k])
        /\ rows'[k]["EVENT"] # <<>> /\ rows'[k]["DATE"] # <<>>
        /\ rows'[k]["START TIME"] # <<>>

C15_IntoBlank == [][C15_IntoBlankStep]_vars

\* a slot has just been added into the first of two fully-blank rows, above
\* a row that holds an event: the second blank row is still blank
C15_Witness ==
    /\ last.op = "add" /\ last.ok /\ last.row = 1
    /\ Len(rows) = 3
    /\ rows[1]["EVENT"] = <<"O", "h">> /\ NewRowBlank(rows[1])
    /\ rows[2]["EVENT"] # <<>>
    /\ FullyBlank(rows[3])

(***************************************************************************)
(* C16, as claimed: provisioning the tracking columns adds each missing    *)
(* header exactly once, in a column after all existing header columns,     *)
(* never overwrites an existing header cell, and is idempotent (a second   *)
(* call on the result changes nothing), for every layout of the header     *)
(* row, also one with an empty cell between headers.                       *)
(***************************************************************************)
Occupied(hdr) == {c \in 1..Len(hdr) : hdr[c] # ""}

\* provisioning made the header row `after` of the header row `before`
Provisioned(before, after) ==
    LET missing == Range(TRACK_HEADERS) \ get_headers(before)
    IN  /\ \A c \in Occupied(before) : after[c] = before[c]
        /\ \A th \in missing :
              /\ Cardinality({c \in 1..Len(after) : after[c] = th}) = 1
              /\ \A c \in 1..Len(after) :
                    after[c] = th => \A o \in Occupied(before) : o < c
        /\ \A th \in Range(TRACK_HEADERS) : th \in get_headers(after)
        /\ ensure_tracking_columns(after) = after

\* a page load provisions the header row of the file, a run of main the
\* header row it loaded
C16_ProvisionStep ==
    /\ LoadPage => Provisioned(header, header')
    /\ (SweepRan /\ last'.done) => Provisioned(procs["cron"].hdr, header')

C16_Provision == [][C16_ProvisionStep]_vars

(***************************************************************************)
(* C17: add slot, list, reserve as user A, list, reserve as user B, cancel *)
(* as user A, list: the added slot is listed as open; after A reserves it  *)
(* is listed as taken; B's reserve is refused and leaves A the reserver;   *)
(* A's cancel succeeds; the last listing shows the slot open again.  Each  *)
(* step is stated from any state the step before can leave, so the steps   *)
(* chain, whatever else the sheet holds.                                   *)
(***************************************************************************)
\* the listing offers row k under "Choose a slot" (upcoming only, taken hidden)
OfferedOpen(sheet, k, t) ==
    \E i \in filtered(list_slots(header, sheet).slots, t, TRUE, FALSE) : list_slots(header, sheet).slots[i].row = k

\* the listing shows row k, marked taken
ShownTaken(sheet, k) ==
    \E i \in 1..Len(list_slots(header, sheet).slots) :
        /\ list_slots(header, sheet).slots[i].row = k
        /\ is_taken(list_slots(header, sheet).slots[i]) /\ label_taken(list_slots(header, sheet).slots[i])
        /\ i \notin filtered(list_slots(header, sheet).slots, 0, FALSE, FALSE)

C17_AddStep ==
    (last'.op = "add" /\ last'.ok)
    => /\ OfferedOpen(rows', last'.row, now)
       /\ rows'[last'.row]["COMPLETED"] = <<>>

C17_ReserveAStep ==
    \A r \in 1..Len(rows), a \in Accounts :
        (last'.op = "reserve" /\ last'.row = r /\ OfferedOpen(rows, r, now)
           /\ SignupsReserve(r, a))
        => /\ last'.ok
           /\ ShownTaken(rows', r)
           /\ HeldBy(rows'[r], a)
           /\ rows'[r]["COMPLETED"] = rows[r]["COMPLETED"]

C17_ReserveBStep ==
    \A r \in 1..Len(rows), a \in Accounts, b \in Accounts :
        (last'.op = "reserve" /\ last'.row = r /\ HeldBy(rows[r], a) /\ b # a
           /\ SignupsReserve(r, b))
        => /\ ~last'.ok
           /\ last'.msg = "That slot is already taken."
           /\ rows' = rows
           /\ HeldBy(rows'[r], a) /\ ~HeldBy(rows'[r], b)

C17_CancelAStep ==
    \A r \in 1..Len(rows), a \in Accounts :
        (last'.op = "cancel" /\ last'.row = r /\ HeldBy(rows[r], a)
           /\ rows[r]["COMPLETED"] = <<>> /\ SlotOf(rows, r).start_dt >= now
           /\ SignupsCancel(r, a.email))
        => /\ last'.ok
           /\ OfferedOpen(rows', r, now)

C17_EndToEnd ==
    [][C17_AddStep /\ C17_ReserveAStep /\ C17_ReserveBStep /\ C17_CancelAStep]_vars

\* the slot the admin added ("Oh") was reserved, and its reserver's cancel
\* has just succeeded: it is offered as open again
C17_Witness ==
    /\ last.op = "cancel" /\ last.ok
    /\ rows[last.row]["EVENT"] = <<"O", "h">>
    /\ OfferedOpen(rows, last.row, now)

(***************************************************************************)
(* C11, as claimed: over any sequence of add slot, reserve, cancel, list   *)
(* and sweep run one after another, SENT_24H and SENT_1H of a slot change  *)
(* only from false to true, except that a successful cancel of the slot    *)
(* resets them; no other operation turns a true flag back to false.  Run   *)
(* one after another: the workbook main saves is the file as it is then.   *)
(***************************************************************************)
SentFlags == {<<"24h", "SENT_24H">>, <<"1h", "SENT_1H">>}

\* the workbook main saves in this step was loaded from the file as it is
OneAfterAnother == SweepRan => (Loaded = rows /\ procs["cron"].hdr = header)

\* the step is a successful cancel, a successful reserve of row r, or a
\* successful add slot written into row r
CancelOf(r) == last'.op = "cancel" /\ last'.ok /\ last'.row = r
ReserveOf(r) ==
    last'.op = "reserve" /\ last'.ok /\ last'.row = r /\ last'.mail = "pending"
AddInto(r) == last'.op = "add" /\ last'.ok /\ last'.row = r

C11_OnlyCancelStep ==
    OneAfterAnother =>
    \A r \in 1..Len(rows) : \A k \in SentFlags :
        /\ r <= Len(rows')
        /\ (Bool(rows[r][k[2]]) /\ ~Bool(rows'[r][k[2]])) => CancelOf(r)

C11_OnlyCancelResets == [][C11_OnlyCancelStep]_vars

(***************************************************************************)
(* C11, amended: reserve and add slot reset the flags as well.  Over any   *)
(* sequence of add slot, reserve, cancel, list and sweep run one after     *)
(* another, a flag goes from false to true only in a sweep that sent that  *)
(* reminder, and from true to false only in a successful cancel of the     *)
(* slot, a successful reserve of the slot or an add slot written into the  *)
(* row.  Reserve acts on a slot without names and add slot on a row        *)
(* without event, date and start time; a row that holds a true flag only   *)
(* beside an email and an event, and an email only beside a name, stays    *)
(* such a row under the five operations, and on such a row a successful    *)
(* cancel is the only reset.                                               *)
(***************************************************************************)
AsOperationsLeave(row) ==
    /\ (Bool(row["SENT_24H"]) \/ Bool(row["SENT_1H"]))
          => (Strip(row["EMAIL"]) # <<>> /\ Truthy(row["EVENT"]))
    /\ (Strip(row["EMAIL"]) # <<>>) => NameFilled(row)

C11_FlagStep ==
    OneAfterAnother =>
    \A r \in 1..Len(rows) :
        /\ r <= Len(rows')
        /\ AsOperationsLeave(rows[r]) => AsOperationsLeave(rows'[r])
        /\ \A k \in SentFlags :
              /\ (Bool(rows[r][k[2]]) /\ ~Bool(rows'[r][k[2]]))
                 => \/ CancelOf(r)
                    \/ /\ ~AsOperationsLeave(rows[r])
                       /\ \/ ReserveOf(r) /\ ~NameFilled(rows[r])
                          \/ AddInto(r) /\ NoSlotIn(rows[r])
              /\ (~Bool(rows[r][k[2]]) /\ Bool(rows'[r][k[2]]))
                 => /\ SweepRan /\ last'.done
                    /\ \E i \in MailsFor(last'.out, r, k[1]) : last'.out[i].ok

C11_FlagsMonotone == [][C11_FlagStep]_vars

\* a slot reserved through the portal has had its 24-hour reminder, and a
\* later run of main, which loaded it with SENT_24H true, has just sent its
\* 1-hour reminder: both flags are true
C11_Witness ==
    /\ last.op = "sweep" /\ last.done
    /\ \E r \in 1..Len(rows) :
          /\ rows[r]["RESERVED_AT"] # <<>>
          /\ MailsFor(last.out, r, "1h") # {} /\ MailsFor(last.out, r, "24h") = {}
          /\ Bool(rows[r]["SENT_24H"]) /\ Bool(rows[r]["SENT_1H"])

(***************************************************************************)
(* Vocabulary of the properties on overlapping runs.                       *)
(***************************************************************************)
\* the handler's call of session p, or main for "cron", has returned
Returned(p, op) == procs[p].pc \in {"returned", "done"} /\ procs[p].op = op

\* call p loaded row r as an open slot
LoadedOpen(p, r) == r \in 1..Len(procs[p].wb) /\ ~reserve_taken(procs[p].wb[r])

\* call p ends in this step
Finishes(p) == procs[p].pc = "loaded" /\ procs'[p].pc # "loaded"

\* call p ends in this step and saves the file
Saves(p) == Finishes(p) /\ procs'[p].ok

\* ensure_tracking_columns of session p saves the file in this step
EnsureSaves(p) == procs[p].pc \in EnsurePcs /\ procs'[p].pc \notin EnsurePcs

(***************************************************************************)
(* C18: reserve is not isolated against a concurrent writer.  A reserve    *)
(* call that loaded the file while the slot was open returns success and   *)
(* saves, whatever the file holds by then, also when a reserve of the      *)
(* other user on the same slot has saved in between and returned success;  *)
(* and its save leaves the slot with its own user's identity and not the   *)
(* other user's.                                                           *)
(***************************************************************************)
C18_LastWriterStep ==
    \A q \in Sessions :
        (/\ Finishes(q)
         /\ procs[q].op = "reserve"
         /\ LoadedOpen(q, procs[q].row))
        => /\ procs'[q].ok
           /\ \A p \in Sessions \ {q} :
                 /\ HeldBy(rows'[procs[q].row], UserOf(q))
                 /\ ~HeldBy(rows'[procs[q].row], UserOf(p))
                 /\ procs'[p].ok = procs[p].ok

C18_LastWriterWins == [][C18_LastWriterStep]_vars

\* both sessions reserved the same slot, the reserve of p saved while q held
\* the workbook it had loaded, both were told it succeeded, and the slot is
\* held by q, which saved last
C18_Witness ==
    \E p \in Sessions, q \in Sessions :
        /\ p # q
        /\ Returned(p, "reserve") /\ Returned(q, "reserve")
        /\ procs[p].row = procs[q].row
        /\ procs[p].ok /\ procs[q].ok
        /\ p \in procs[q].over
        /\ procs[q].pc = "returned"
        /\ HeldBy(rows[procs[q].row], UserOf(q))
        /\ ~HeldBy(rows[procs[q].row], UserOf(p))

(***************************************************************************)
(* C19: the app and the sweep overlap on the file, the last writer wins    *)
(* and nothing reports the loss.  (a) When main of reminder.py saves, each *)
(* reserve or cancel that returned success and saved after main had loaded *)
(* is undone: its slot is back to the reservation cells of the workbook    *)
(* main loaded (or the row is gone), and the call's return value stays     *)
(* success.  (b) When the app saves a workbook it loaded before main       *)
(* saved, the flag of every reminder main sent is false again in the file. *)
(***************************************************************************)
IdentityCols == {"FIRST NAME", "LAST NAME", "EMAIL", "USER_ID", "RESERVED_AT"}

\* the reservation cells of row r of the sheet, <<>> if there is no such row
IdentityAt(sheet, r) ==
    IF r \in 1..Len(sheet) THEN <<[c \in IdentityCols |-> sheet[r][c]]>> ELSE <<>>

FlagOf(kind) == IF kind = "24h" THEN "SENT_24H" ELSE "SENT_1H"

C19_SweepUndoesStep ==
    Saves("cron")
    => \A p \in procs["cron"].over :
         (procs[p].op \in {"reserve", "cancel"} /\ procs[p].ok)
         => /\ IdentityAt(rows', procs[p].row) = IdentityAt(procs["cron"].wb, procs[p].row)
            /\ procs'[p].ok

C19_AppRevertsStep ==
    \A p \in Sessions :
        ((Saves(p) \/ EnsureSaves(p)) /\ "cron" \in procs[p].over)
        => \A i \in 1..Len(procs["cron"].out) :
             LET m == procs["cron"].out[i]
             IN  (m.ok /\ m.row \in 1..Len(rows'))
                 => ~Bool(rows'[m.row][FlagOf(m.kind)])

C19_LostUpdates == [][C19_SweepUndoesStep /\ C19_AppRevertsStep]_vars

\* main loaded, the reserve of session p then saved and returned success,
\* main saved after it and sent a reminder, and session q has then saved a
\* workbook it had loaded before main saved: p does not hold the slot and
\* the flag of the reminder that was sent is false
C19_Witness ==
    \E p \in Sessions, q \in Sessions, i \in 1..Len(procs["cron"].out) :
        /\ Returned(p, "reserve") /\ procs[p].ok
        /\ p \in procs["cron"].over
        /\ Returned("cron", "sweep") /\ procs["cron"].ok
        /\ "cron" \in procs[q].over /\ ~Holding(q)
        /\ ~HeldBy(rows[procs[p].row], UserOf(p))
        /\ procs["cron"].out[i].ok
        /\ ~Bool(rows[procs["cron"].out[i].row][FlagOf(procs["cron"].out[i].kind)])

(***************************************************************************)
(* C21, as claimed: list_slots and a refused reserve or cancel never       *)
(* change slot data in the file, also when they overlap with main of       *)
(* reminder.py: once main has saved, while the sessions have done nothing  *)
(* but page loads and reserve or cancel calls that were refused, every     *)
(* reminder main sent has its sent flag true and its calendar UID in the   *)
(* file; and the step in which list_slots reads the rows changes none.     *)
(***************************************************************************)
\* session p has not clicked, or its click was a reserve or cancel, which
\* has not yet returned or was refused
ReadOnlyCall(p) ==
    \/ procs[p].op = "none"
    \/ procs[p].op \in {"reserve", "cancel"} /\ ~procs[p].ok

\* what main wrote for the reminders it sent is in the file
SweepWritesKept ==
    \A i \in 1..Len(procs["cron"].out) :
        LET m == procs["cron"].out[i]
        IN  m.ok => /\ m.row \in 1..Len(rows)
                    /\ Bool(rows[m.row][FlagOf(m.kind)])
                    /\ rows[m.row]["GCAL_UID"] = m.uid

C21_SweepKept ==
    (/\ Returned("cron", "sweep") /\ procs["cron"].ok
     /\ \A p \in Sessions : ReadOnlyCall(p))
    => SweepWritesKept

C21_ListStep ==
    \A p \in Sessions :
        (procs[p].pc \in {"p2", "r2"} /\ procs'[p].pc # procs[p].pc) => rows' = rows

C21_ReadOnly == [](C21_SweepKept) /\ [][C21_ListStep]_vars

(***************************************************************************)
(* C22, as claimed: add_slot changes only the one row it writes, and that  *)
(* row held no data before: it is a new row below the sheet or a row all   *)
(* of whose cells were empty (a sent flag may have been False).  So no     *)
(* first name, last name, email, user id, completed mark, sent flag,       *)
(* calendar UID or end time that an existing row holds is overwritten or   *)
(* cleared, also in a row whose event, date and start time are blank while *)
(* other cells are filled.                                                 *)
(***************************************************************************)
HeldNoData(row) ==
    \A c \in Columns :
        row[c] = <<>> \/ (c \in {"SENT_24H", "SENT_1H"} /\ row[c] = <<FALSE>>)

ProtectedCols ==
    {"FIRST NAME", "LAST NAME", "EMAIL", "USER_ID", "COMPLETED", "SENT_24H",
     "SENT_1H", "GCAL_UID", "END TIME"}

C22_FrameStep ==
    (last'.op = "add" /\ last'.ok) =>
    LET k == last'.row
    IN  /\ \A q \in 1..Len(rows) : q # k => (q <= Len(rows') /\ rows'[q] = rows[q])
        /\ (k <= Len(rows)) => HeldNoData(rows[k])
        /\ \A q \in 1..Len(rows), c \in ProtectedCols :
              (IF c \in {"SENT_24H", "SENT_1H"} THEN Bool(rows[q][c])
               ELSE rows[q][c] # <<>>)
              => rows'[q][c] = rows[q][c]

C22_AddFrame == [][C22_FrameStep]_vars

(***************************************************************************)
(* C23, as claimed: a reminder that is due is sent whatever happens to the *)
(* mails of other slots.  While send_email fails every time for one        *)
(* address and main runs less than an hour apart, every reserved slot with *)
(* another address, in whatever row, has got its 24-hour reminder by the   *)
(* time its 24-hour window has closed, and its 1-hour reminder by the time *)
(* its 1-hour window has closed.                                           *)
(***************************************************************************)
\* a send_email call for row r and this kind of reminder has succeeded
Delivered(r, kind) ==
    \E i \in MailsFor(procs["cron"].out, r, kind) : procs["cron"].out[i].ok

C23_OthersServed ==
    \A r \in 1..Len(rows) :
        (Remindable(rows[r]) /\ Strip(rows[r]["EMAIL"]) \notin FailingAddresses)
        => /\ (DeltaOf(rows[r], now) < W24Lo) => Delivered(r, "24h")
           /\ (DeltaOf(rows[r], now) < W1Lo) => Delivered(r, "1h")

====
